---- MODULE Spec2Model ----
(***************************************************************************)
(* A model of baserock-export-git-submodules.py: the script that turns the *)
(* (repo, ref) pairs of a Baserock build graph into a Git "megarepo" in    *)
(* one of four modes (submodule, subtree, subrepo, repo manifest).         *)
(*                                                                         *)
(* The script's own state is its position (pc), the generator of pairs,    *)
(* the XML tree it builds and its exit status.  Everything else is the     *)
(* world it acts on through external commands: the output directory, its   *)
(* entries, the Git index and history.  Each external command is modelled  *)
(* by what Git does with it, and may also fail for reasons outside the     *)
(* model (a fault chosen by the environment).                              *)
(***************************************************************************)
EXTENDS Integers, Sequences, FiniteSets, TLC

\* ------------------------------------------------------------------ bounds

\* Number of distinct commits of a source repository.
MaxRef == 2
\* Longest list of source-pool items of a build graph.
MaxPool == 2
\* Number of consecutive runs of the script on one output directory.
MaxRuns == 2

\* --------------------------------------------------- constants of the script

MODES == {"submodule", "subtree", "subrepo", "repo"}

\* The width of the commit field that submodule_info slices out: output[1:41].
ShaLen == 40

U1 == "git://git.baserock.org/delta/perl"
U2 == "ssh://git@git.baserock.org/delta/perl.git"
U3 == "http://h/z.git"

\* The repository URLs the alias resolver hands out in this model: one that
\* is a key of DEFAULT_BRANCHES, one with the other known host prefix, a
\* '.git' suffix and the same final path segment, and one foreign URL.
Repos == {U1, U2, U3}

\* Values the --mode argument takes: the four modes and an unsupported one.
ArgModes == MODES \cup {"bogus"}

\* ------------------------------------------------------- Python's strings

Min(a, b) == IF a < b THEN a ELSE b

\* s[a:b] for 0 <= a <= b.
PySlice(s, a, b) == SubSeq(s, a + 1, Min(b, Len(s)))

\* s[a:] for a >= 0.
PySliceFrom(s, a) == SubSeq(s, a + 1, Len(s))

Char(s, i) == SubSeq(s, i, i)

endswith(s, suffix) ==
    /\ Len(suffix) <= Len(s)
    /\ SubSeq(s, Len(s) - Len(suffix) + 1, Len(s)) = suffix

\* The index of the last '/' of s, 0 when there is none.
RECURSIVE LastSlash(_, _)
LastSlash(s, i) ==
    IF i = 0 THEN 0
    ELSE IF Char(s, i) = "/" THEN i
    ELSE LastSlash(s, i - 1)

\* os.path.basename: what follows the last '/'.
basename(p) == SubSeq(p, LastSlash(p, Len(p)) + 1, Len(p))

\* Whether the regular expression '^' + pat matches s when every '.' of pat
\* stands for any one character and every other character for itself.
RECURSIVE MatchesAt(_, _, _)
MatchesAt(pat, s, i) ==
    IF i > Len(pat) THEN TRUE
    ELSE IF i > Len(s) THEN FALSE
    ELSE /\ Char(pat, i) = "." \/ Char(pat, i) = Char(s, i)
         /\ MatchesAt(pat, s, i + 1)

\* re.sub('^' + pat, '', s)
re_sub_prefix(pat, s) ==
    IF MatchesAt(pat, s, 1) THEN PySliceFrom(s, Len(pat)) ELSE s

RECURSIVE Repeat(_, _)
Repeat(c, n) == IF n = 0 THEN "" ELSE c \o Repeat(c, n - 1)

\* The 40-character SHA1 of commit number c of a repository.
Sha(c) == Repeat(Char("0123456789", c + 1), ShaLen)

\* item.sha1 of the source pool's items: the refs a pair can ask for.
Refs == {Sha(c) : c \in 1 .. MaxRef}

\* No commit.
NoSha == ""

\* The commit at the tip of the branch `git submodule add --branch` checks
\* out: the first of the refs, so that a pair asks for the tip or for another
\* commit according to its ref.
BranchTip == Sha(1)

\* ---------------------------------------------------------- naming, branches

\* The branch taken without the table: always 'master'.
DefaultBranch_TableIgnored(repo) == "master"

\* DEFAULT_BRANCHES.get(repo, 'master')
DefaultBranch(repo) ==
    IF repo = "git://git.baserock.org/delta/intltool" THEN "baserock/morph"
    ELSE IF repo = "git://git.baserock.org/delta/perl" THEN "baserock/morph"
    ELSE "master"

\* The name without the removal of the .git extension.
EntryName_ExtensionKept(repo) == basename(repo)

\* The name every strategy derives from the URL: the final path segment
\* without a trailing '.git'.
EntryName(repo) ==
    LET name == basename(repo)
    IN  IF endswith(name, ".git") THEN PySlice(name, 0, Len(name) - 4) ELSE name

Names == {EntryName(u) : u \in Repos}

\* -------------------------------------------------------------------- state

VARIABLES
    mode,        \* args.mode
    pool,        \* the source pool: a list of <<repo URL, sha1>> items
    run,         \* which run of the script on this output directory this is
    prev,        \* how the previous run ended ("none" for the first run)
    pc,          \* the script's position
    exitStatus,  \* the process's exit status, -1 while it runs
    cacheSetUp,  \* whether this run has constructed the repo cache
    pos,         \* the generator's position in the source pool
    returned,    \* the generator's set of pairs already yielded
    pair,        \* the pair the loop of the Director holds
    xmlroot,     \* repo mode: the elements of the manifest being built
    rootExists,  \* whether the output directory exists
    hasHead,     \* whether the megarepo has at least one commit
    entries,     \* the state of each entry of the output directory, by name
    manifest,    \* manifest.xml: [file |-> content on disk, head |-> committed]
    start,       \* rootExists and entries as they were when the run began
    probed,      \* the last `git submodule status` output and what was made of it
    ops          \* the external commands this run has issued, in order

vars == <<mode, pool, run, prev, pc, exitStatus, cacheSetUp, pos, returned,
          pair, xmlroot, rootExists, hasHead, entries, manifest, start,
          probed, ops>>

\* The state of one entry of the output directory.
\*   st   "Absent"     no such directory
\*        "Untracked"  a directory Git knows nothing of (a clone left behind)
\*        "Tracked"    a directory of tracked files (a subtree, a subrepo)
\*        "Uninit"     a submodule recorded in the index and not cloned
\*        "Init"       a cloned submodule
\*        "Conflict"   a submodule with merge conflicts
\*   cur  the commit the submodule's working copy is at (Init)
\*   idx  the commit the index records for the submodule
\*   head the commit the megarepo's HEAD records for the submodule
Entry(st, cur, idx, head) == [st |-> st, cur |-> cur, idx |-> idx, head |-> head]

AbsentEntry == Entry("Absent", NoSha, NoSha, NoSha)

NoPair == <<"", "">>

NoProbe == [name |-> "", out |-> "", err |-> "none", initialized |-> FALSE,
            commit |-> ""]

NoManifest == <<>>

\* One external command as the run issued it: the entry it was about, its
\* distinguishing argument, the state the entry was in when it ran, and its
\* result: "ok", "fault" (non-zero for a reason outside the model) or
\* "refused" (non-zero because of the state it was run in).
Op(cmd, name, arg, st, res) ==
    [cmd |-> cmd, name |-> name, arg |-> arg, st |-> st, res |-> res]

\* What a step of the script hands back: the entries and whether the megarepo
\* has a commit, the commands issued, the exception that ended the step (""
\* for none) and the probe it made.
Res(ents, head, log, err, probe) ==
    [ents |-> ents, head |-> head, log |-> log, err |-> err, probe |-> probe]

\* ------------------------------------------------------ Git, as the script uses it

\* `git submodule status <name>`: the exit code and the output.  Git prints
\* one line, <flag><sha1> <path>[ (<describe>)], with flag '-' for a submodule
\* that is not initialised (and the commit of the index), ' ' or '+' for an
\* initialised one whose checked-out commit is, or is not, the commit of the
\* index, and 'U' for one with merge conflicts.  A path of tracked files that
\* is no submodule prints nothing; a path Git does not know is an error.
git_submodule_status(e, name) ==
    CASE e.st = "Uninit" ->
            [rc |-> 0, out |-> "-" \o e.idx \o " " \o name]
      [] e.st = "Init" ->
            [rc |-> 0, out |-> (IF e.cur = e.idx THEN " " ELSE "+") \o e.cur
                                 \o " " \o name \o " (heads/master)"]
      [] e.st = "Conflict" ->
            [rc |-> 0, out |-> "U" \o Sha(0) \o " " \o name]
      [] e.st = "Tracked" ->
            [rc |-> 0, out |-> ""]
      [] OTHER ->
            [rc |-> 1, out |-> ""]

\* `git submodule add --branch <branch> --name <name> <repo>`: the clone of
\* the repository at the tip of the branch, recorded in the index.
git_submodule_add(ents, name, tip) ==
    [ents EXCEPT ![name] = Entry("Init", tip, tip, ents[name].head)]

\* What a failed `git submodule add` leaves: nothing, or (the failure that
\* DEFAULT_BRANCHES works around, "Unable to checkout submodule") the clone
\* it made, which the index does not know.
git_submodule_add_failed(ents, name, left) ==
    IF left THEN [ents EXCEPT ![name] = Entry("Untracked", NoSha, NoSha, @.head)]
    ELSE ents

\* `git submodule update --init <name>`: clones the submodule and checks out
\* the commit the index records.
git_submodule_update_init(ents, name) ==
    [ents EXCEPT ![name] = Entry("Init", @.idx, @.idx, @.head)]

\* `git checkout <ref>` in the submodule's directory.
git_checkout(ents, name, ref) ==
    [ents EXCEPT ![name] = Entry(@.st, ref, @.idx, @.head)]

\* `git subtree add`, `git subrepo clone`: the entry's files, committed by the
\* command itself.
git_subtree_add(ents, name) ==
    [ents EXCEPT ![name] = Entry("Tracked", NoSha, NoSha, NoSha)]

\* What `git commit --all` would record for an entry.
Recorded(e) ==
    CASE e.st = "Init" -> e.cur
      [] e.st = "Uninit" -> e.idx
      [] OTHER -> e.head

\* Whether `git commit --all` has anything to commit.
SomethingToCommit(ents, mf) ==
    \/ \E n \in DOMAIN ents : Recorded(ents[n]) # ents[n].head
    \/ mf.file # mf.head

\* Whether `git commit` refuses to commit at all.
Unmerged(ents) == \E n \in DOMAIN ents : ents[n].st = "Conflict"

\* `git commit --all`
git_commit_all(ents) ==
    [n \in DOMAIN ents |->
        LET e == ents[n]
        IN  IF e.st = "Init" THEN Entry("Init", e.cur, e.cur, e.cur)
            ELSE IF e.st = "Uninit" THEN Entry("Uninit", e.cur, e.idx, e.idx)
            ELSE e]

\* ------------------------------------------------------------- the prober

\* submodule_info with the commit sliced from offset 0: output[0:40].
submodule_info_SliceFromFlag(name, output) ==
    LET commit == PySlice(output, 0, ShaLen)
        Probe(err, initialized) ==
            [name |-> name, out |-> output, err |-> err,
             initialized |-> initialized, commit |-> commit]
    IN  IF Len(output) = 0 THEN Probe("IndexError", FALSE)
        ELSE IF Char(output, 1) = "-" THEN Probe("", FALSE)
        ELSE IF Char(output, 1) \in {" ", "+"} THEN Probe("", TRUE)
        ELSE Probe("RuntimeError", FALSE)

\* submodule_info, given the output of `git submodule status` (a Python 2
\* str: output[0] is its first character, and fails on an empty output).
submodule_info(name, output) ==
    LET commit == PySlice(output, 1, ShaLen + 1)
        Probe(err, initialized) ==
            [name |-> name, out |-> output, err |-> err,
             initialized |-> initialized, commit |-> commit]
    IN  IF Len(output) = 0 THEN Probe("IndexError", FALSE)
        ELSE IF Char(output, 1) = "-" THEN Probe("", FALSE)
        ELSE IF Char(output, 1) \in {" ", "+"} THEN Probe("", TRUE)
        ELSE Probe("RuntimeError", FALSE)

\* ---------------------------------------------------------- the strategies

\* Which external command of one call of a strategy fails for a reason
\* outside the model: the f-th it issues, none when f is 0 (a call issues at
\* most three).
Faults == 0 .. 3

\* The checkout run in every initialised submodule of the megarepo.
checkout_EveryEntry(ents, head, log, name, ref, fault, probe) ==
    Res([n \in DOMAIN ents |->
            IF ents[n].st = "Init" THEN git_checkout(ents, n, ref)[n] ELSE ents[n]],
        head, log \o <<Op("checkout", name, ref, ents[name].st, "ok")>>, "", probe)

\* The checkout run in the megarepo's directory instead of the submodule's:
\* the command is issued and the submodule stays where it was.
checkout_InWrongDirectory(ents, head, log, name, ref, fault, probe) ==
    Res(ents, head, log \o <<Op("checkout", name, ref, ents[name].st, "ok")>>, "",
        probe)

\* subprocess.check_call(['git', 'checkout', ref], cwd=submodule_path), after
\* the commands of `log`.  In a directory that holds no clone of its own the
\* command acts on the megarepo, which has no such commit.
checkout(ents, head, log, name, ref, fault, probe) ==
    LET op(res) == Op("checkout", name, ref, ents[name].st, res)
    IN  IF ents[name].st # "Init"
        THEN Res(ents, head, log \o <<op("refused")>>, "CalledProcessError", probe)
        ELSE IF fault
        THEN Res(ents, head, log \o <<op("fault")>>, "CalledProcessError", probe)
        ELSE Res(git_checkout(ents, name, ref), head, log \o <<op("ok")>>, "", probe)

\* The strategy without the comparison of the probed commit with the ref.
create_or_update_submodule_NoComparison(ents, head, repo, ref, f, left) ==
    LET name == EntryName(repo)
        e == ents[name]
    IN  IF e.st # "Absent"
        THEN LET s == git_submodule_status(e, name)
                 status(res) == Op("status", name, "", e.st, res)
                 info == submodule_info(name, s.out)
             IN  IF s.rc # 0
                 THEN Res(ents, head, <<status("refused")>>, "CalledProcessError", NoProbe)
                 ELSE IF f = 1
                 THEN Res(ents, head, <<status("fault")>>, "CalledProcessError", NoProbe)
                 ELSE IF info.err # ""
                 THEN Res(ents, head, <<status("ok")>>, info.err, info)
                 ELSE IF FALSE
                 THEN Res(ents, head, <<status("ok")>>, "", info)
                 ELSE IF ~info.initialized
                 THEN LET update(res) ==
                              Op("submodule_update_init", name, "", e.st, res)
                      IN  IF f = 2
                          THEN Res(ents, head, <<status("ok"), update("fault")>>,
                                   "CalledProcessError", info)
                          ELSE checkout(git_submodule_update_init(ents, name), head,
                                        <<status("ok"), update("ok")>>,
                                        name, ref, f = 3, info)
                 ELSE checkout(ents, head, <<status("ok")>>, name, ref, f = 2, info)
        ELSE LET branch == DefaultBranch(repo)
                 add(res) == Op("submodule_add", name, branch, e.st, res)
             IN  IF f = 1
                 THEN Res(git_submodule_add_failed(ents, name, left), head,
                          <<add("fault")>>, "CalledProcessError", NoProbe)
                 ELSE checkout(git_submodule_add(ents, name, BranchTip), head,
                               <<add("ok")>>, name, ref, f = 2, NoProbe)

\* create_or_update_submodule(path, repo, ref, gitdir).  f is the command
\* that fails (0: none), left whether a failed add leaves its clone.
create_or_update_submodule(ents, head, repo, ref, f, left) ==
    LET name == EntryName(repo)
        e == ents[name]
    IN  IF e.st # "Absent"
        THEN LET s == git_submodule_status(e, name)
                 status(res) == Op("status", name, "", e.st, res)
                 info == submodule_info(name, s.out)
             IN  IF s.rc # 0
                 THEN Res(ents, head, <<status("refused")>>, "CalledProcessError", NoProbe)
                 ELSE IF f = 1
                 THEN Res(ents, head, <<status("fault")>>, "CalledProcessError", NoProbe)
                 ELSE IF info.err # ""
                 THEN Res(ents, head, <<status("ok")>>, info.err, info)
                 ELSE IF info.commit = ref
                 THEN Res(ents, head, <<status("ok")>>, "", info)
                 ELSE IF ~info.initialized
                 THEN LET update(res) ==
                              Op("submodule_update_init", name, "", e.st, res)
                      IN  IF f = 2
                          THEN Res(ents, head, <<status("ok"), update("fault")>>,
                                   "CalledProcessError", info)
                          ELSE checkout(git_submodule_update_init(ents, name), head,
                                        <<status("ok"), update("ok")>>,
                                        name, ref, f = 3, info)
                 ELSE checkout(ents, head, <<status("ok")>>, name, ref, f = 2, info)
        ELSE LET branch == DefaultBranch(repo)
                 add(res) == Op("submodule_add", name, branch, e.st, res)
             IN  IF f = 1
                 THEN Res(git_submodule_add_failed(ents, name, left), head,
                          <<add("fault")>>, "CalledProcessError", NoProbe)
                 ELSE checkout(git_submodule_add(ents, name, BranchTip), head,
                               <<add("ok")>>, name, ref, f = 2, NoProbe)

\* create_or_update_subtree(path, repo, ref, gitdir).  `git subtree add`
\* needs a commit to add to: in a repository without one it fails.
create_or_update_subtree(ents, head, repo, ref, f) ==
    LET name == EntryName(repo)
        e == ents[name]
        branch == DefaultBranch(repo)
        pull(res) == Op("subtree_pull", name, branch, e.st, res)
        add(res) == Op("subtree_add", name, branch, e.st, res)
    IN  IF e.st # "Absent"
        THEN IF f = 1
             THEN Res(ents, head, <<pull("fault")>>, "CalledProcessError", NoProbe)
             ELSE Res(ents, head, <<pull("ok")>>, "", NoProbe)
        ELSE IF ~head
             THEN Res(ents, head, <<add("refused")>>, "CalledProcessError", NoProbe)
             ELSE IF f = 1
             THEN Res(ents, head, <<add("fault")>>, "CalledProcessError", NoProbe)
             ELSE Res(git_subtree_add(ents, name), head, <<add("ok")>>, "", NoProbe)

\* The subrepo strategy without its test of the path: always a clone.
create_or_update_subrepo_AlwaysClone(ents, head, repo, ref, f) ==
    LET name == EntryName(repo)
        clone(res) == Op("subrepo_clone", name, DefaultBranch(repo), ents[name].st, res)
    IN  IF f = 1
        THEN Res(ents, head, <<clone("fault")>>, "CalledProcessError", NoProbe)
        ELSE Res(git_subtree_add(ents, name), TRUE, <<clone("ok")>>, "", NoProbe)

\* create_or_update_subrepo(path, repo, ref, gitdir).  `git subrepo clone`
\* commits what it cloned.
create_or_update_subrepo(ents, head, repo, ref, f) ==
    LET name == EntryName(repo)
        e == ents[name]
        branch == DefaultBranch(repo)
        pull(res) == Op("subrepo_pull", name, branch, e.st, res)
        clone(res) == Op("subrepo_clone", name, branch, e.st, res)
    IN  IF e.st # "Absent"
        THEN IF f = 1
             THEN Res(ents, head, <<pull("fault")>>, "CalledProcessError", NoProbe)
             ELSE Res(ents, head, <<pull("ok")>>, "", NoProbe)
        ELSE IF f = 1
             THEN Res(ents, head, <<clone("fault")>>, "CalledProcessError", NoProbe)
             ELSE Res(git_subtree_add(ents, name), TRUE, <<clone("ok")>>, "", NoProbe)

\* An element of the manifest, as the line toprettyxml(indent="  ") writes for
\* it: the attributes in alphabetical order.
RemoteElement(name, fetch) ==
    "  <remote fetch=\"" \o fetch \o "\" name=\"" \o name \o "\"/>"

ProjectElement(name, path, remote, revision) ==
    "  <project name=\"" \o name \o "\" path=\"" \o path \o "\" remote=\""
        \o remote \o "\" revision=\"" \o revision \o "\"/>"

\* create_or_update_repo(path, repo, ref, gitdir, xmlroot): the children of
\* xmlroot with the project's element appended.
create_or_update_repo(xml, repo, ref) ==
    LET name == EntryName(repo)
        stripped == re_sub_prefix("ssh://git@git.baserock.org",
                                  re_sub_prefix("git://git.baserock.org", repo))
    IN  Append(xml, ProjectElement(PySliceFrom(stripped, 1), name, "baserock", ref))

\* The children of the manifest element after line 251.
NewXmlRoot == <<RemoteElement("baserock", "git://git.baserock.org")>>

\* minidom's toprettyxml(indent="  ") of the manifest, by lines.
toprettyxml(xml) ==
    <<"<?xml version=\"1.0\" ?>", "<manifest>">> \o xml \o <<"</manifest>">>

\* ------------------------------------------------------------ the Director

\* Lines 241-247: the output directory is opened, or created with
\* morphlib.gitdir.init and `git submodule init`.  f is the command that
\* fails; a failed init is taken to leave no directory.
open_root(exists, f) ==
    LET init(res) == Op("init", "", "", "Absent", res)
        submodule_init(res) == Op("submodule_init", "", "", "Absent", res)
    IN  IF exists
        THEN [exists |-> TRUE, log |-> <<>>, err |-> ""]
        ELSE IF f = 1
        THEN [exists |-> FALSE, log |-> <<init("fault")>>,
              err |-> "CalledProcessError"]
        ELSE IF f = 2
        THEN [exists |-> TRUE, log |-> <<init("ok"), submodule_init("fault")>>,
              err |-> "CalledProcessError"]
        ELSE [exists |-> TRUE, log |-> <<init("ok"), submodule_init("ok")>>,
              err |-> ""]

\* The message without the plural.
CommitMessage_NoPlural(m) == "Add/update " \o m

\* The message of the final commit.
CommitMessage(m) == "Add/update " \o m \o "s"

\* finalize with manifest.xml opened for appending.
finalize_ManifestAppended(m, ents, head, mf, xml, f) ==
    LET written == IF m = "repo" THEN [mf EXCEPT !.file = mf.file \o toprettyxml(xml)] ELSE mf
        add(res) == Op("add_manifest", "", "manifest.xml", "", res)
        commit(res) == Op("commit", "", CommitMessage(m), "", res)
        staged == IF m = "repo" THEN <<add("ok")>> ELSE <<>>
        Out(e, h, f2, log, err) ==
            [ents |-> e, head |-> h, manifest |-> f2, log |-> log, err |-> err]
    IN  IF m = "repo" /\ f = 1
        THEN Out(ents, head, written, <<add("fault")>>, "CalledProcessError")
        ELSE IF Unmerged(ents) \/ ~SomethingToCommit(ents, written)
        THEN Out(ents, head, written, staged \o <<commit("refused")>>,
                 "CalledProcessError")
        ELSE IF f = 2
        THEN Out(ents, head, written, staged \o <<commit("fault")>>,
                 "CalledProcessError")
        ELSE Out(git_commit_all(ents), TRUE, [written EXCEPT !.head = written.file],
                 staged \o <<commit("ok")>>, "")

\* Lines 266-276: the manifest is written and staged (repo mode), and
\* everything is committed.  f is the command that fails: 1 the `git add`,
\* 2 the `git commit`.
finalize(m, ents, head, mf, xml, f) ==
    LET written == IF m = "repo" THEN [mf EXCEPT !.file = toprettyxml(xml)] ELSE mf
        add(res) == Op("add_manifest", "", "manifest.xml", "", res)
        commit(res) == Op("commit", "", CommitMessage(m), "", res)
        staged == IF m = "repo" THEN <<add("ok")>> ELSE <<>>
        Out(e, h, f2, log, err) ==
            [ents |-> e, head |-> h, manifest |-> f2, log |-> log, err |-> err]
    IN  IF m = "repo" /\ f = 1
        THEN Out(ents, head, written, <<add("fault")>>, "CalledProcessError")
        ELSE IF Unmerged(ents) \/ ~SomethingToCommit(ents, written)
        THEN Out(ents, head, written, staged \o <<commit("refused")>>,
                 "CalledProcessError")
        ELSE IF f = 2
        THEN Out(ents, head, written, staged \o <<commit("fault")>>,
                 "CalledProcessError")
        ELSE Out(git_commit_all(ents), TRUE, [written EXCEPT !.head = written.file],
                 staged \o <<commit("ok")>>, "")

\* The generator without its set of returned pairs: every item is yielded.
NextNew_NoSkip(p, i, ret) == i

\* The generator of all_repos_and_refs_for_component: the position of the
\* next item, from i on, whose pair has not been yielded.
RECURSIVE NextNew(_, _, _)
NextNew(p, i, ret) ==
    IF i > Len(p) THEN i
    ELSE IF p[i] \in ret THEN NextNew(p, i + 1, ret)
    ELSE i

\* main without its test of args.mode.
ModeSupported_NoTest(m) == TRUE

\* main's test of args.mode.
ModeSupported(m) == m \in MODES

\* ------------------------------------------------------------------ actions

\* main, lines 280-286: an unsupported mode is logged and the process exits.
MainCheckMode ==
    /\ pc = "main"
    /\ IF ModeSupported(mode)
       THEN pc' = "cache" /\ exitStatus' = exitStatus
       ELSE pc' = "exited" /\ exitStatus' = 0
    /\ UNCHANGED <<mode, pool, run, prev, cacheSetUp, pos, returned, pair,
                   xmlroot, rootExists, hasHead, entries, manifest, start,
                   probed, ops>>

\* main, lines 288-296: the resolver, the repo cache, and the generator object
\* (whose body runs only when the Director's loop asks for the first pair).
SetUpRepoCache ==
    /\ pc = "cache"
    /\ cacheSetUp' = TRUE
    /\ pc' = "megarepo"
    /\ UNCHANGED <<mode, pool, run, prev, exitStatus, pos, returned, pair,
                   xmlroot, rootExists, hasHead, entries, manifest, start,
                   probed, ops>>

\* create_or_update_git_megarepo, lines 241-251.
OpenRoot ==
    /\ pc = "megarepo"
    /\ \E f \in 0 .. 2 :
         LET r == open_root(rootExists, f)
         IN  /\ rootExists' = r.exists
             /\ ops' = ops \o r.log
             /\ IF r.err = ""
                THEN /\ pc' = "loop"
                     /\ exitStatus' = exitStatus
                     /\ xmlroot' = IF mode = "repo" THEN NewXmlRoot ELSE xmlroot
                ELSE /\ pc' = "aborted"
                     /\ exitStatus' = 1
                     /\ xmlroot' = xmlroot
    /\ UNCHANGED <<mode, pool, run, prev, cacheSetUp, pos, returned, pair,
                   hasHead, entries, manifest, start, probed>>

\* The loop of line 253 takes the generator's next pair (lines 119-123), or
\* leaves the loop when the source pool is exhausted.
Yield ==
    /\ pc = "loop"
    /\ LET j == NextNew(pool, pos + 1, returned)
       IN  IF j > Len(pool)
           THEN /\ pc' = "finalize"
                /\ pos' = Len(pool)
                /\ UNCHANGED <<returned, pair>>
           ELSE /\ pc' = "dispatch"
                /\ pos' = j
                /\ returned' = returned \cup {pool[j]}
                /\ pair' = pool[j]
    /\ UNCHANGED <<mode, pool, run, prev, exitStatus, cacheSetUp, xmlroot,
                   rootExists, hasHead, entries, manifest, start, probed, ops>>

\* A strategy whose commands were run with subprocess.call: a command that
\* returns non-zero raises nothing and the loop goes on.
Apply_ReturnCodeIgnored(r) ==
    /\ entries' = r.ents
    /\ hasHead' = r.head
    /\ ops' = ops \o r.log
    /\ probed' = r.probe
    /\ pc' = "loop"
    /\ exitStatus' = exitStatus
    /\ UNCHANGED <<mode, pool, run, prev, cacheSetUp, pos, returned, pair,
                   xmlroot, rootExists, manifest, start>>

\* What a strategy's call leaves: an exception ends the run.
Apply(r) ==
    /\ entries' = r.ents
    /\ hasHead' = r.head
    /\ ops' = ops \o r.log
    /\ probed' = r.probe
    /\ IF r.err = ""
       THEN pc' = "loop" /\ exitStatus' = exitStatus
       ELSE pc' = "aborted" /\ exitStatus' = 1
    /\ UNCHANGED <<mode, pool, run, prev, cacheSetUp, pos, returned, pair,
                   xmlroot, rootExists, manifest, start>>

\* Lines 254-255.
DispatchSubmodule ==
    /\ pc = "dispatch"
    /\ mode = "submodule"
    /\ \E f \in Faults, left \in BOOLEAN :
         Apply(create_or_update_submodule(entries, hasHead, pair[1], pair[2],
                                          f, left))

\* Lines 256-257.
DispatchSubtree ==
    /\ pc = "dispatch"
    /\ mode = "subtree"
    /\ \E f \in 0 .. 1 :
         Apply(create_or_update_subtree(entries, hasHead, pair[1], pair[2], f))

\* Lines 258-259.
DispatchSubrepo ==
    /\ pc = "dispatch"
    /\ mode = "subrepo"
    /\ \E f \in 0 .. 1 :
         Apply(create_or_update_subrepo(entries, hasHead, pair[1], pair[2], f))

\* Lines 260-264: the manifest's project element, or, for any other mode, the
\* error and exit().
DispatchOther ==
    /\ pc = "dispatch"
    /\ mode \notin {"submodule", "subtree", "subrepo"}
    /\ IF mode = "repo"
       THEN /\ xmlroot' = create_or_update_repo(xmlroot, pair[1], pair[2])
            /\ pc' = "loop"
            /\ exitStatus' = exitStatus
       ELSE /\ xmlroot' = xmlroot
            /\ pc' = "exited"
            /\ exitStatus' = 0
    /\ UNCHANGED <<mode, pool, run, prev, cacheSetUp, pos, returned, pair,
                   rootExists, hasHead, entries, manifest, start, probed, ops>>

\* Lines 266-276, and the end of main.
Finalize ==
    /\ pc = "finalize"
    /\ \E f \in 0 .. 2 :
         LET r == finalize(mode, entries, hasHead, manifest, xmlroot, f)
         IN  /\ entries' = r.ents
             /\ hasHead' = r.head
             /\ manifest' = r.manifest
             /\ ops' = ops \o r.log
             /\ IF r.err = ""
                THEN pc' = "done" /\ exitStatus' = 0
                ELSE pc' = "aborted" /\ exitStatus' = 1
    /\ UNCHANGED <<mode, pool, run, prev, cacheSetUp, pos, returned, pair,
                   xmlroot, rootExists, start, probed>>

\* The operator runs the script again, with the same arguments, on what the
\* last run left.
StartRun ==
    /\ pc \in {"done", "aborted", "exited"}
    /\ run < MaxRuns
    /\ run' = run + 1
    /\ prev' = pc
    /\ pc' = "main"
    /\ exitStatus' = -1
    /\ cacheSetUp' = FALSE
    /\ pos' = 0
    /\ returned' = {}
    /\ pair' = NoPair
    /\ xmlroot' = <<>>
    /\ start' = [root |-> rootExists, entries |-> entries]
    /\ probed' = NoProbe
    /\ ops' = <<>>
    /\ UNCHANGED <<mode, pool, rootExists, hasHead, entries, manifest>>

\* The loop of lines 253-264 in repo mode, from item i on: the children of
\* xmlroot once the generator is exhausted.
RECURSIVE CollectProjects(_, _, _, _)
CollectProjects(p, i, ret, xml) ==
    LET j == NextNew(p, i + 1, ret)
    IN  IF j > Len(p) THEN xml
        ELSE CollectProjects(p, j, ret \cup {p[j]},
                             create_or_update_repo(xml, p[j][1], p[j][2]))

\* The manifest.xml a run in repo mode writes for a list of source items.
ManifestOf(p) == toprettyxml(CollectProjects(p, 0, {}, NewXmlRoot))

\* ----------------------------------------------------------- specifications

Items == Repos \X Refs

Pools == UNION {[1 .. n -> Items] : n \in 0 .. MaxPool}

\* What a run starts with, whatever the world.
InitRun ==
    /\ run = 1
    /\ prev = "none"
    /\ pc = "main"
    /\ exitStatus = -1
    /\ cacheSetUp = FALSE
    /\ pos = 0
    /\ returned = {}
    /\ pair = NoPair
    /\ xmlroot = <<>>
    /\ manifest = [file |-> NoManifest, head |-> NoManifest]
    /\ start = [root |-> rootExists, entries |-> entries]
    /\ probed = NoProbe
    /\ ops = <<>>

\* The script is run, again and again, on an output directory that does not
\* exist, or that is a Git repository with a first commit which holds no
\* entry yet.
Init ==
    /\ mode \in ArgModes
    /\ pool \in Pools
    /\ rootExists \in BOOLEAN
    /\ hasHead = rootExists
    /\ entries = [n \in Names |-> AbsentEntry]
    /\ InitRun

Next ==
    \/ MainCheckMode
    \/ SetUpRepoCache
    \/ OpenRoot
    \/ Yield
    \/ DispatchSubmodule
    \/ DispatchSubtree
    \/ DispatchSubrepo
    \/ DispatchOther
    \/ Finalize
    \/ StartRun

Spec == Init /\ [][Next]_vars

\* The states a submodule of an existing megarepo can be found in.
EntryStates ==
    {AbsentEntry, Entry("Untracked", NoSha, NoSha, NoSha),
     Entry("Tracked", NoSha, NoSha, NoSha)}
    \cup {Entry("Uninit", NoSha, c, c) : c \in Refs}
    \cup {Entry("Init", c, i, i) : c \in Refs, i \in Refs}
    \cup {Entry("Conflict", NoSha, c, c) : c \in Refs}

\* One run in submodule mode for one pair, on an existing megarepo whose
\* entries are in any state.
InitEntry ==
    /\ mode = "submodule"
    /\ pool \in [1 .. 1 -> Items]
    /\ rootExists = TRUE
    /\ hasHead = TRUE
    /\ entries \in [Names -> EntryStates]
    /\ InitRun

NextEntry ==
    \/ MainCheckMode
    \/ SetUpRepoCache
    \/ OpenRoot
    \/ Yield
    \/ DispatchSubmodule
    \/ Finalize

SpecEntry == InitEntry /\ [][NextEntry]_vars

\* The longest list of source items given to the generator alone.
MaxItems == 3

\* One run in repo mode, whose strategy only records the pairs it is given in
\* the order the generator yields them, over longer lists of source items.
InitGen ==
    /\ mode = "repo"
    /\ pool \in UNION {[1 .. n -> Items] : n \in 0 .. MaxItems}
    /\ rootExists \in BOOLEAN
    /\ hasHead = rootExists
    /\ entries = [n \in Names |-> AbsentEntry]
    /\ InitRun

NextGen ==
    \/ MainCheckMode
    \/ SetUpRepoCache
    \/ OpenRoot
    \/ Yield
    \/ DispatchOther
    \/ Finalize

SpecGen == InitGen /\ [][NextGen]_vars

\* A repository whose URL ends with a slash.
U4 == "git://git.baserock.org/delta/zlib/"

ManifestItems == (Repos \cup {U4}) \X Refs

\* The manifest.xml an earlier run with other definitions has committed.
EarlierManifest ==
    toprettyxml(create_or_update_repo(NewXmlRoot, U3, BranchTip))

\* One run in repo mode on an existing megarepo, which may hold an entry and
\* the manifest of an earlier run.
InitRepo ==
    /\ mode = "repo"
    /\ pool \in UNION {[1 .. n -> ManifestItems] : n \in 0 .. MaxPool}
    /\ rootExists = TRUE
    /\ hasHead = TRUE
    /\ entries \in {[n \in Names |-> AbsentEntry],
                    [n \in Names |-> IF n = EntryName(U1)
                                     THEN Entry("Init", BranchTip, BranchTip, BranchTip)
                                     ELSE AbsentEntry]}
    /\ manifest \in {[file |-> d, head |-> d] : d \in {NoManifest, EarlierManifest}}
    /\ run = 1
    /\ prev = "none"
    /\ pc = "main"
    /\ exitStatus = -1
    /\ cacheSetUp = FALSE
    /\ pos = 0
    /\ returned = {}
    /\ pair = NoPair
    /\ xmlroot = <<>>
    /\ start = [root |-> rootExists, entries |-> entries]
    /\ probed = NoProbe
    /\ ops = <<>>

SpecRepo == InitRepo /\ [][NextGen]_vars

\* One run in any mode for one pair, on an existing megarepo whose entries are
\* in any state.
InitFrame ==
    /\ mode \in MODES
    /\ pool \in [1 .. 1 -> Items]
    /\ rootExists = TRUE
    /\ hasHead = TRUE
    /\ entries \in [Names -> EntryStates]
    /\ InitRun

NextFrame ==
    \/ MainCheckMode
    \/ SetUpRepoCache
    \/ OpenRoot
    \/ Yield
    \/ DispatchSubmodule
    \/ DispatchSubtree
    \/ DispatchSubrepo
    \/ DispatchOther
    \/ Finalize

SpecFrame == InitFrame /\ [][NextFrame]_vars

\* ------------------------------------------------------------------ claims

\* The de-duplicated desired set.
Desired == {pool[i] : i \in 1 .. Len(pool)}

Finished == pc \in {"done", "aborted", "exited"}

\* The Director's loop has handed the pair to its strategy, which returned.
Processed == pair # NoPair /\ pc \in {"loop", "finalize"}

\* The commands that act on one entry in submodule mode.
EntryLevel == {"submodule_add", "submodule_update_init", "checkout"}

\* No command of this run failed for a reason outside the model.
NoFault == \A i \in 1 .. Len(ops) : ops[i].res # "fault"

\* PresentInitialized(ref), for a pair, in a set of entries.
InitializedAt(ents, p) ==
    /\ ents[EntryName(p[1])].st = "Init"
    /\ ents[EntryName(p[1])].cur = p[2]

C2_SecondRunIssuesNothing ==
    (mode = "submodule" /\ run > 1 /\ prev = "done") =>
        \A i \in 1 .. Len(ops) : ops[i].cmd \notin EntryLevel

\* Every desired entry was in its terminal state, committed, when the run began.
SatisfiedAtStart ==
    /\ mode = "submodule"
    /\ start.root
    /\ Desired # {}
    /\ \A p \in Desired :
         /\ InitializedAt(start.entries, p)
         /\ start.entries[EntryName(p[1])].head = p[2]

\* C3 as the claim states it: a run that finds every desired entry in its
\* terminal state, and so has nothing to commit, ends in success.
C3_NothingToCommitIsSuccess ==
    (SatisfiedAtStart /\ Finished /\ NoFault) => (pc = "done" /\ exitStatus = 0)

\* C4 as the claim states it: after a successful run in submodule mode every
\* pair of the desired set has its entry checked out at the pair's ref.
C4_EveryPairAtItsRef ==
    (mode = "submodule" /\ pc = "done") =>
        \A p \in Desired : InitializedAt(entries, p)

\* The terminal state of a pair's entry, by mode.
Terminal(p) ==
    CASE mode = "submodule" -> InitializedAt(entries, p)
      [] mode \in {"subtree", "subrepo"} -> entries[EntryName(p[1])].st # "Absent"
      [] OTHER ->
            \E i \in 1 .. Len(manifest.file) :
                manifest.file[i] = Head(create_or_update_repo(<<>>, p[1], p[2]))

\* The successful commits of this run.
Commits == {i \in 1 .. Len(ops) : ops[i].cmd = "commit" /\ ops[i].res = "ok"}

\* C5 as the claim states it: from a nonexistent output directory, a run in
\* which no entry operation fails ends with every desired entry in its
\* terminal state and exactly one commit of the Director.
C5_ConvergenceFromEmpty ==
    (/\ run = 1
     /\ ~start.root
     /\ mode \in MODES
     /\ pc \in {"done", "aborted"}
     /\ \A i \in 1 .. Len(ops) : ops[i].cmd # "commit" => ops[i].res = "ok"
     /\ NoFault)
    => (/\ pc = "done"
        /\ \A p \in Desired : Terminal(p)
        /\ Cardinality(Commits) = 1)

\* C6 as the claim states it: in submodule mode, the run that follows an
\* aborted run, and in which no operation fails for a reason of its own, ends
\* with every desired entry PresentInitialized(ref) and its commit made.
C6_ReentrantAfterFailure ==
    (/\ mode = "submodule"
     /\ Desired # {}
     /\ run > 1
     /\ prev = "aborted"
     /\ Finished
     /\ NoFault)
    =>  (/\ pc = "done"
         /\ \A p \in Desired : InitializedAt(entries, p))

\* C7: a command that returns non-zero is the last command of its run, which
\* is aborted (no later entry command, no final commit); and the step that
\* aborts changes no entry but the one being processed and takes back neither
\* the output directory nor a commit.
C7_AbortAtFailure ==
    /\ [](\A i \in 1 .. Len(ops) :
            ops[i].res # "ok" => (i = Len(ops) /\ pc = "aborted"))
    /\ [][(pc' = "aborted") =>
            /\ \A n \in Names : n # EntryName(pair[1]) => entries'[n] = entries[n]
            /\ rootExists => rootExists'
            /\ hasHead => hasHead'
            /\ manifest'.head = manifest.head]_vars
    /\ [][(pc = "aborted" /\ pc' = "aborted") =>
            /\ ops' = ops
            /\ entries' = entries]_vars

\* A failed command ended a run on which an earlier entry had been attached.
C7_Witness ==
    /\ pc = "aborted"
    /\ Len(ops) > 2
    /\ ops[Len(ops)].res = "fault"
    /\ \E n \in Names : n # EntryName(pair[1]) /\ entries[n].st = "Init"

\* C8 as the claim states it: an unsupported mode ends the process with a
\* non-zero exit status.
C8_UnsupportedModeExitsNonZero ==
    (~(mode \in MODES) /\ pc = "exited") => exitStatus # 0

\* C9: with an unsupported mode the process ends before any mutation: no
\* repo cache is set up, the output directory is neither created nor
\* initialised, and no command is issued.
C9_UnsupportedModeMutatesNothing ==
    ~(mode \in MODES) =>
        /\ ~cacheSetUp
        /\ ops = <<>>
        /\ rootExists = start.root
        /\ entries = start.entries
        /\ pc \in {"main", "exited"}

C9_Witness == ~(mode \in MODES) /\ pc = "exited" /\ ~rootExists

\* C10: in submodule mode the prober is run only for an entry whose directory
\* exists; a status line that starts with '-' is reported as uninitialised,
\* one that starts with ' ' or '+' as initialised, with characters 1 to 40 as
\* the commit; any other first character aborts the run with the probe-format
\* error, the status command being the last command of the run.
C10_Prober ==
    /\ \A i \in 1 .. Len(ops) : ops[i].cmd = "status" => ops[i].st # "Absent"
    /\ (probed # NoProbe /\ Len(probed.out) > 0) =>
        LET lead == SubSeq(probed.out, 1, 1)
        IN  /\ lead = "-" => (probed.err = "" /\ ~probed.initialized)
            /\ lead \in {" ", "+"} => (probed.err = "" /\ probed.initialized)
            /\ lead \in {"-", " ", "+"} =>
                 /\ Len(probed.commit) = 40
                 /\ probed.out = lead \o probed.commit
                                   \o SubSeq(probed.out, 42, Len(probed.out))
            /\ lead \notin {"-", " ", "+"} =>
                 /\ probed.err = "RuntimeError"
                 /\ pc = "aborted"
                 /\ ops[Len(ops)].cmd = "status"

\* The prober met a status line of a submodule with merge conflicts.
C10_Witness ==
    /\ probed # NoProbe
    /\ SubSeq(probed.out, 1, 1) = "U"
    /\ pc = "aborted"

\* The commands that attach a new entry.
Attach == {"submodule_add", "subtree_add", "subrepo_clone"}

\* The keys of the override table.
OverrideKeys == {"git://git.baserock.org/delta/intltool",
                 "git://git.baserock.org/delta/perl"}

\* The commands a step adds to the run's log.
Issued == SubSeq(ops', Len(ops) + 1, Len(ops'))

\* C11: every attach command (submodule add, subtree add, subrepo clone) that
\* the Director's loop issues for a pair names the overridden branch when the
\* pair's URL is a key of the override table and 'master' otherwise, whatever
\* the pair's ref.
C11_BranchFallback ==
    [][pc = "dispatch" =>
        \A i \in 1 .. Len(Issued) :
            Issued[i].cmd \in Attach =>
                Issued[i].arg = IF pair[1] \in OverrideKeys THEN "baserock/morph"
                                ELSE "master"]_vars

\* Entries were attached with the overridden branch and with 'master'.
C11_Witness ==
    /\ \E i \in 1 .. Len(ops) :
         ops[i].cmd \in Attach /\ ops[i].arg = "baserock/morph"
    /\ \E i \in 1 .. Len(ops) :
         ops[i].cmd \in Attach /\ ops[i].arg = "master"

\* The distinct items of a list, each at the place of its first occurrence.
RECURSIVE FirstOccurrences(_)
FirstOccurrences(p) ==
    IF p = <<>> THEN <<>>
    ELSE LET front == SubSeq(p, 1, Len(p) - 1)
             last == p[Len(p)]
         IN  IF \E j \in 1 .. Len(front) : front[j] = last
             THEN FirstOccurrences(front)
             ELSE Append(FirstOccurrences(front), last)

\* What the repo strategy records when it is given the pairs of a list, one
\* after the other.
Projects(seq) ==
    [i \in 1 .. Len(seq) |-> create_or_update_repo(<<>>, seq[i][1], seq[i][2])[1]]

\* C12: for every list of source items the generator yields each distinct
\* (URL, ref) pair once, in the order of first occurrence, and nothing else:
\* what the loop has been given so far is the list of first occurrences of the
\* items consumed, the set of returned pairs is the set of those items, and
\* when the generator is exhausted every distinct pair has been given.
C12_Deduplication ==
    /\ returned = {pool[k] : k \in 1 .. pos}
    /\ pc = "dispatch" => pair = pool[pos] /\ \A k \in 1 .. pos - 1 : pool[k] # pair
    /\ pc = "loop" =>
         xmlroot = NewXmlRoot \o Projects(FirstOccurrences(SubSeq(pool, 1, pos)))
    /\ pc = "finalize" =>
         /\ xmlroot = NewXmlRoot \o Projects(FirstOccurrences(pool))
         /\ Len(xmlroot) = 1 + Cardinality(Desired)

\* A list of three items, the third a copy of the first and the second the
\* same repository at another ref, was consumed: two pairs were yielded.
C12_Witness ==
    /\ pc = "finalize"
    /\ Len(pool) = 3
    /\ pool[1] = pool[3]
    /\ pool[2][1] = pool[1][1]
    /\ pool[2][2] # pool[1][2]
    /\ Len(xmlroot) = 3

\* Whether a string starts with another, and whether it holds it.
StartsWith(str, pre) == Len(pre) <= Len(str) /\ SubSeq(str, 1, Len(pre)) = pre

Contains(str, sub) ==
    \E k \in 0 .. Len(str) - Len(sub) : SubSeq(str, k + 1, k + Len(sub)) = sub

\* The lines of a document that are elements with a tag.
ElementsOf(doc, tag) ==
    {i \in 1 .. Len(doc) : StartsWith(doc[i], "  <" \o tag \o " ")}

\* An element has the attribute, with a value that is not empty.
HasValue(line, attr) ==
    /\ Contains(line, " " \o attr \o "=\"")
    /\ ~Contains(line, " " \o attr \o "=\"\"")

\* This run has written manifest.xml.
ManifestWritten ==
    mode = "repo" /\ \E i \in 1 .. Len(ops) : ops[i].cmd = "add_manifest"

\* C13: in repo mode the manifest written for a desired set of N pairs holds
\* one remote element and N project elements, each with a name, a path, a
\* remote and a revision that are not empty, whatever the URLs.
C13_ManifestWellFormed ==
    ManifestWritten =>
        /\ Cardinality(ElementsOf(manifest.file, "remote")) = 1
        /\ Cardinality(ElementsOf(manifest.file, "project")) = Cardinality(Desired)
        /\ \A i \in ElementsOf(manifest.file, "project") :
             \A attr \in {"name", "path", "remote", "revision"} :
                 HasValue(manifest.file[i], attr)

\* The lists of source items that hold the pairs of this run, in any order.
Orders ==
    {q \in UNION {[1 .. n -> Desired] : n \in 0 .. MaxPool} :
        {q[i] : i \in 1 .. Len(q)} = Desired}

Lines(doc) == {doc[i] : i \in 1 .. Len(doc)}

\* C14 as stated: in repo mode the manifest written is the one a run writes
\* for the same set of pairs iterated in any order, whatever manifest.xml held
\* before and whatever entries exist.
C14_DeterminedBySet ==
    ManifestWritten => \A q \in Orders : manifest.file = ManifestOf(q)

\* C14: in repo mode the manifest written is determined by the list of pairs
\* alone, whatever manifest.xml held before and whatever entries exist; a run
\* given the same pairs in another order writes a document with the same
\* elements, and the same document when the first occurrences come in the
\* same order.
C14_DeterminedByOrderedPairs ==
    ManifestWritten =>
        /\ manifest.file = ManifestOf(pool)
        /\ \A q \in Orders :
             /\ Lines(ManifestOf(q)) = Lines(manifest.file)
             /\ Len(ManifestOf(q)) = Len(manifest.file)
             /\ FirstOccurrences(q) = FirstOccurrences(pool)
                    => ManifestOf(q) = manifest.file

\* Two distinct pairs were written over the committed manifest of an earlier
\* run, in a megarepo that holds an entry.
C14_Witness ==
    /\ ManifestWritten
    /\ Cardinality(Desired) = 2
    /\ manifest.head = EarlierManifest
    /\ manifest.file # EarlierManifest
    /\ entries[EntryName(U1)].st = "Init"

\* The final path segment of a URL: what follows its last slash.
FinalSegment(url) ==
    CHOOSE seg \in {SubSeq(url, k + 1, Len(url)) : k \in 0 .. Len(url)} :
        /\ ~Contains(seg, "/")
        /\ Len(seg) = Len(url) \/ Char(url, Len(url) - Len(seg)) = "/"

\* The final path segment, without one trailing '.git'.
ExpectedName(url) ==
    LET seg == FinalSegment(url)
        n == Len(seg)
    IN  IF n >= 4 /\ SubSeq(seg, n - 3, n) = ".git" THEN SubSeq(seg, 1, n - 4)
        ELSE seg

\* C15: each of the four strategies names the entry of a pair by the final
\* path segment of its URL with one trailing '.git' removed: every command a
\* strategy issues is for that name, and the project element of repo mode has
\* it as its path.
C15_NamingDeterminism ==
    [][pc = "dispatch" /\ mode \in MODES =>
        /\ \A i \in 1 .. Len(Issued) : Issued[i].name = ExpectedName(pair[1])
        /\ mode # "repo" => Len(Issued) >= 1
        /\ mode = "repo" =>
             /\ Len(xmlroot') = Len(xmlroot) + 1
             /\ Contains(xmlroot'[Len(xmlroot')],
                         " path=\"" \o ExpectedName(pair[1]) \o "\" ")]_vars

\* A subtree was added for a URL that ends with '.git', under the name
\* without the extension.
C15_Witness ==
    /\ mode = "subtree"
    /\ pair[1] = U2
    /\ \E i \in 1 .. Len(ops) :
         ops[i].cmd = "subtree_add" /\ ops[i].name = "perl" /\ ops[i].res = "ok"

\* The commands of this run that act on an entry, as (command, argument).
EntryOps ==
    LET IsEntryLevel(o) == o.cmd \in EntryLevel
        sel == SelectSeq(ops, IsEntryLevel)
    IN  [i \in 1 .. Len(sel) |-> <<sel[i].cmd, sel[i].arg>>]

\* C16: in submodule mode the commands issued for an entry are: for an absent
\* entry, submodule add with the branch and then checkout of the ref; for an
\* initialised entry at the ref, none; for an initialised entry at another
\* commit, checkout of the ref alone; for an uninitialised entry recorded at
\* another commit, submodule update --init and then checkout of the ref.  No
\* checkout is issued for an entry that is not initialised at that moment and
\* no submodule add for an entry whose directory exists.
C16_SubmoduleOperations ==
    /\ \A i \in 1 .. Len(ops) :
         /\ ops[i].cmd = "checkout" => ops[i].st = "Init"
         /\ ops[i].cmd = "submodule_add" => ops[i].st = "Absent"
    /\ mode = "submodule" /\ Processed =>
         LET e == start.entries[EntryName(pair[1])]
             ref == pair[2]
             branch == IF pair[1] \in OverrideKeys THEN "baserock/morph" ELSE "master"
         IN  /\ e.st = "Absent" =>
                 EntryOps = << <<"submodule_add", branch>>, <<"checkout", ref>> >>
             /\ e.st = "Init" /\ e.cur = ref => EntryOps = <<>>
             /\ e.st = "Init" /\ e.cur # ref => EntryOps = << <<"checkout", ref>> >>
             /\ e.st = "Uninit" /\ e.idx # ref =>
                 EntryOps = << <<"submodule_update_init", "">>, <<"checkout", ref>> >>

\* An uninitialised entry recorded at another commit was materialised and
\* then moved to the ref.
C16_Witness ==
    /\ mode = "submodule"
    /\ Processed
    /\ start.entries[EntryName(pair[1])].st = "Uninit"
    /\ start.entries[EntryName(pair[1])].idx # pair[2]
    /\ EntryOps = << <<"submodule_update_init", "">>, <<"checkout", pair[2]>> >>
    /\ entries[EntryName(pair[1])] .st = "Init"

\* C17: in subtree and subrepo modes a pair causes one command, a pull when
\* the entry's directory exists at that moment and an add (subtree) or a clone
\* (subrepo) when it does not, for the entry's name and with the branch the
\* table gives the URL, whatever the ref; when the command succeeds the entry
\* is present.
C17_SubtreeSubrepoOperations ==
    [][pc = "dispatch" /\ mode \in {"subtree", "subrepo"} =>
        LET name == ExpectedName(pair[1])
            branch == IF pair[1] \in OverrideKeys THEN "baserock/morph" ELSE "master"
            present == entries[name].st # "Absent"
        IN  /\ Len(Issued) = 1
            /\ Issued[1].name = name
            /\ Issued[1].arg = branch
            /\ Issued[1].cmd =
                 IF present THEN (IF mode = "subtree" THEN "subtree_pull" ELSE "subrepo_pull")
                 ELSE (IF mode = "subtree" THEN "subtree_add" ELSE "subrepo_clone")
            /\ Issued[1].res = "ok" => entries'[name].st # "Absent"]_vars

\* In a second run a subrepo that was present was pulled, with success.
C17_Witness ==
    /\ mode = "subrepo"
    /\ run = 2
    /\ \E i \in 1 .. Len(ops) :
         /\ ops[i].cmd = "subrepo_pull"
         /\ ops[i].st # "Absent"
         /\ ops[i].res = "ok"

\* The commands that create the megarepo.
RootOps == {"init", "submodule_init"}

\* C18: within a run the commands that create the root are issued only when
\* the root does not exist, and before every other command; every command on
\* an entry is issued while the loop holds the pair of that entry, so the
\* commands of one entry are over before the first of the next; in repo mode
\* manifest.xml is written and staged only once the generator is exhausted;
\* and a commit is issued once, as the last command of a run, with the message
\* 'Add/update <mode>s', in every run of a supported mode that reaches the end
\* of the loop and whose earlier commands succeeded.
C18_OrderingWithinRun ==
    /\ [](/\ \A i \in 1 .. Len(ops) :
               /\ ops[i].cmd \in RootOps =>
                    ~start.root /\ \A j \in 1 .. i - 1 : ops[j].cmd \in RootOps
               /\ ops[i].cmd \notin RootOps /\ ~start.root =>
                    /\ i > 2
                    /\ ops[1] = Op("init", "", "", "Absent", "ok")
                    /\ ops[2].cmd = "submodule_init" /\ ops[2].res = "ok"
               /\ ops[i].cmd = "add_manifest" =>
                    /\ mode = "repo"
                    /\ pos = Len(pool)
                    /\ returned = Desired
                    /\ Len(xmlroot) = 1 + Cardinality(Desired)
               /\ ops[i].cmd = "commit" =>
                    /\ i = Len(ops)
                    /\ ops[i].arg = "Add/update " \o mode \o "s"
                    /\ returned = Desired
                    /\ mode = "repo" => i > 1 /\ ops[i - 1].cmd = "add_manifest"
          /\ pc = "done" => Len(ops) >= 1 /\ ops[Len(ops)].cmd = "commit"
          /\ /\ pc \in {"done", "aborted"}
             /\ mode \in MODES
             /\ returned = Desired
             /\ \A i \in 1 .. Len(ops) : ops[i].cmd # "commit" => ops[i].res = "ok"
             => Len(ops) >= 1 /\ ops[Len(ops)].cmd = "commit")
    /\ [][/\ \A i \in 1 .. Len(Issued) :
               Issued[i].name # "" =>
                   pc = "dispatch" /\ Issued[i].name = ExpectedName(pair[1])
          /\ pair' # pair => ops' = ops \/ ops' = <<>>
          /\ manifest' # manifest => pc = "finalize" /\ mode = "repo"]_vars

\* A run in submodule mode created the root, attached two entries and
\* committed.
C18_Witness ==
    /\ pc = "done"
    /\ mode = "submodule"
    /\ ~start.root
    /\ ops[1].cmd = "init"
    /\ Cardinality({ops[i].name : i \in 1 .. Len(ops)}) = 3
    /\ ops[Len(ops)] = Op("commit", "", "Add/update submodules", "", "ok")

\* The names the desired pairs give their entries.
DesiredNames == {ExpectedName(p[1]) : p \in Desired}

\* C19: a run removes and detaches nothing: the root and every entry present
\* when the run started are present at every moment of it, however it ends,
\* and a submodule stays a submodule; in submodule, subtree and subrepo modes
\* an entry that no desired pair names is the subject of no command and keeps
\* its materialisation state.
C19_NothingRemoved ==
    /\ start.root => rootExists
    /\ \A n \in Names :
         /\ start.entries[n].st # "Absent" => entries[n].st # "Absent"
         /\ start.entries[n].st \in {"Uninit", "Init"} =>
                entries[n].st \in {"Uninit", "Init"}
         /\ /\ mode \in {"submodule", "subtree", "subrepo"}
            /\ n \notin DesiredNames
            => /\ entries[n].st = start.entries[n].st
               /\ entries[n].cur = start.entries[n].cur
               /\ \A i \in 1 .. Len(ops) : ops[i].name # n

\* A run in submodule mode moved its entry to the ref and committed, beside
\* an initialised submodule at another commit that no pair names.
C19_Witness ==
    /\ mode = "submodule"
    /\ pc = "done"
    /\ \E i \in 1 .. Len(ops) : ops[i].cmd = "checkout" /\ ops[i].res = "ok"
    /\ \E n \in Names \ DesiredNames :
         /\ start.entries[n].st = "Init"
         /\ start.entries[n].cur # pair[2]
         /\ entries[n].cur = start.entries[n].cur

====
